---- MODULE Spec2Model ----
(***************************************************************************)
(* The text-to-SQL agent of Project Samarth: the LangGraph workflow of     *)
(* local_langgraph_agent.py (generate_sql -> execute_sql ->                *)
(* should_continue_or_retry -> generate_sql | synthesize_answer -> END)    *)
(* as it is run for one question by streamlit_app.py with                  *)
(* recursion_limit 10.                                                     *)
(*                                                                         *)
(* Python strings are sequences of one-character strings, so that strip,   *)
(* replace, lower, startswith, len and "in" are computed as Python does.   *)
(*                                                                         *)
(* should_continue_or_retry counts a retry by assigning into the state     *)
(* dict it is handed and returns only the name of the route.  Whether the  *)
(* state the next node reads has that assignment is the graph engine's     *)
(* doing, not this code's: an engine that hands the edge function a dict   *)
(* built from its own state drops it, one that hands over its state keeps  *)
(* it.  A run is of either kind (mutation_visible), fixed when it starts.  *)
(***************************************************************************)
EXTENDS Integers, Sequences, FiniteSets, TLC

VARIABLES
    question,          \* AgentState["question"]
    schema,            \* AgentState["schema"]
    sql_query,         \* AgentState["sql_query"]
    data,              \* AgentState["data"]
    answer,            \* AgentState["answer"]
    retries,           \* AgentState["retries"]
    pc,                \* the node (or edge function) the graph runs next
    mutation_visible,  \* whether the graph engine keeps what the edge function
                       \* assigns into the state dict it was handed
    llm_output,        \* the content of the last successful llm.invoke of generate_sql_node
    db_query,          \* the argument of the last db.run
    sql_prompt,        \* the variable parts of the last prompt of generate_sql_node
    answer_prompt,     \* the variable parts of the last prompt of synthesize_answer_node
    trace,             \* the nodes and decisions run so far, oldest first
    llm_calls,         \* the calls of llm.invoke made by the run
    db_calls,          \* the calls of db.run made by the run
    error_str,         \* str(e) of the exception agent_app.stream raised, "" if none
    messages,          \* st.session_state.messages
    runs               \* the runs of several sessions in progress at once, by session

\* the variables of the run of one question
single == <<question, schema, sql_query, data, answer, retries, pc,
            llm_output, db_query, sql_prompt, answer_prompt, trace,
            llm_calls, db_calls, error_str, messages>>

vars == <<question, schema, sql_query, data, answer, retries, pc, mutation_visible,
          llm_output, db_query, sql_prompt, answer_prompt, trace,
          llm_calls, db_calls, error_str, messages, runs>>

-----------------------------------------------------------------------------
(* Program constants *)

RETRY_BUDGET == 3

RECURSION_LIMIT == 10

MIN_SQL_LEN == 10

\* the character U+0060 (grave accent), which a TLA+ string literal cannot hold
BQ == "grave"

\* '~~~sql' (6)   with ~ for a grave accent
FENCE_SQL == <<BQ,BQ,BQ,"s","q","l">>
\* '~~~' (3)   with ~ for a grave accent
FENCE == <<BQ,BQ,BQ>>
\* '*/' (2)
COMMENT_CLOSE == <<"*","/">>
\* 'SQL:' (4)
SQL_LABEL == <<"S","Q","L",":">>
\* 'Error:' (6)
ERROR_MARKER == <<"E","r","r","o","r",":">>

SQL_VERBS ==
    { <<"s","e","l","e","c","t">>, <<"i","n","s","e","r","t">>, <<"u","p","d","a","t","e">>,
      <<"d","e","l","e","t","e">>, <<"c","r","e","a","t","e">> }

\* 'Error: Invalid SQL generated.' (29)
ERR_INVALID_SQL_GENERATED == <<"E","r","r","o","r",":"," ","I","n","v","a","l","i","d"," ","S","Q","L"," ","g","e","n","e","r","a","t","e","d",".">>
\* 'Error during SQL generation: ' (29)
ERR_DURING_GENERATION == <<"E","r","r","o","r"," ","d","u","r","i","n","g"," ","S","Q","L"," ","g","e","n","e","r","a","t","i","o","n",":"," ">>
\* as ERR_NO_VALID_SQL, had execute_sql_node left the message of a failed
\* validation in data instead of writing its own
ERR_LEFT_FROM_GENERATION == <<"E","r","r","o","r",":"," ","I","n","v","a","l","i","d"," ","S","Q","L"," ","g","e","n","e","r","a","t","e","d",".">>

\* 'Error: No valid SQL to execute.' (31)
ERR_NO_VALID_SQL == <<"E","r","r","o","r",":"," ","N","o"," ","v","a","l","i","d"," ","S","Q","L"," ","t","o"," ","e","x","e","c","u","t","e",".">>
\* 'Error: Invalid SQL, stopping execution.' (39)
ERR_INVALID_SQL_STOP == <<"E","r","r","o","r",":"," ","I","n","v","a","l","i","d"," ","S","Q","L",","," ","s","t","o","p","p","i","n","g"," ","e","x","e","c","u","t","i","o","n",".">>
\* 'Error: ' (7)
ERR_EXECUTION == <<"E","r","r","o","r",":"," ">>
\* 'Error synthesizing answer: ' (27)
ERR_SYNTHESIZING == <<"E","r","r","o","r"," ","s","y","n","t","h","e","s","i","z","i","n","g"," ","a","n","s","w","e","r",":"," ">>

-----------------------------------------------------------------------------
(* Python str operations *)

Whitespace == {" ", "\n", "\t", "\r"}

\* 'ABCDEFGHIJKLMNOPQRSTUVWXYZ' (26)
UPPER == <<"A","B","C","D","E","F","G","H","I","J","K","L","M","N","O","P","Q","R","S","T","U","V","W","X","Y","Z">>
\* 'abcdefghijklmnopqrstuvwxyz' (26)
LOWER == <<"a","b","c","d","e","f","g","h","i","j","k","l","m","n","o","p","q","r","s","t","u","v","w","x","y","z">>

\* str.lower() on one character
LowerChar(c) ==
    IF \E i \in 1..Len(UPPER) : UPPER[i] = c
    THEN LOWER[CHOOSE i \in 1..Len(UPPER) : UPPER[i] = c]
    ELSE c

\* str.lower()
Lower(s) == [i \in 1..Len(s) |-> LowerChar(s[i])]

RECURSIVE LStrip(_)
LStrip(s) ==
    IF s # <<>> /\ Head(s) \in Whitespace THEN LStrip(Tail(s)) ELSE s

RECURSIVE RStrip(_)
RStrip(s) ==
    IF s # <<>> /\ s[Len(s)] \in Whitespace THEN RStrip(SubSeq(s, 1, Len(s) - 1)) ELSE s

\* str.strip()
Strip(s) == RStrip(LStrip(s))

\* str.startswith(p)
StartsWith(s, p) == Len(s) >= Len(p) /\ SubSeq(s, 1, Len(p)) = p

\* p in s
Contains(s, p) ==
    \E i \in 1..(Len(s) - Len(p) + 1) : SubSeq(s, i, i + Len(p) - 1) = p

\* str.replace(p, ""): the occurrences of p, left to right and non-overlapping
RECURSIVE Remove(_, _)
Remove(s, p) ==
    IF Len(s) < Len(p) THEN s
    ELSE IF SubSeq(s, 1, Len(p)) = p THEN Remove(SubSeq(s, Len(p) + 1, Len(s)), p)
    ELSE <<Head(s)>> \o Remove(Tail(s), p)

\* as HasSqlVerb, with a verb looked for anywhere in the text instead of at its start
HasSqlVerbAnywhere(s) == \E v \in SQL_VERBS : Contains(Lower(s), v)

\* s.lower().startswith(("select", "insert", "update", "delete", "create"))
HasSqlVerb(s) == \E v \in SQL_VERBS : StartsWith(Lower(s), v)

-----------------------------------------------------------------------------
(* What the collaborators may answer *)

\* 'SELECT 1;' (9)
SQL_SELECT_1 == <<"S","E","L","E","C","T"," ","1",";">>
\* 'SELECT 10;' (10)
SQL_SELECT_10 == <<"S","E","L","E","C","T"," ","1","0",";">>
\* 'SELECT 12' (9)
SQL_SELECT_12 == <<"S","E","L","E","C","T"," ","1","2">>
\* 'select 1 ;' (10)
SQL_LOWER == <<"s","e","l","e","c","t"," ","1"," ",";">>
\* '  SELECT 10;\n' (13)
SQL_PADDED == <<" "," ","S","E","L","E","C","T"," ","1","0",";","\n">>
\* 'not sql' (7)
OUT_NOT_SQL == <<"n","o","t"," ","s","q","l">>
\* 'SQL: SELECT 10;' (15)
OUT_LABELLED == <<"S","Q","L",":"," ","S","E","L","E","C","T"," ","1","0",";">>
\* 'SELECT*SQL:/ 1;' (15)
OUT_REJOIN_COMMENT == <<"S","E","L","E","C","T","*","S","Q","L",":","/"," ","1",";">>
\* 'SELECT 1~~SQL:~;' (16)   with ~ for a grave accent
OUT_REJOIN_FENCE == <<"S","E","L","E","C","T"," ","1",BQ,BQ,"S","Q","L",":",BQ,";">>
\* 'Sure: SELECT 10;' (16)
OUT_PROSE == <<"S","u","r","e",":"," ","S","E","L","E","C","T"," ","1","0",";">>
\* "[('Bihar', 500)]" (16)
ROWS_BIHAR == <<"[","(","'","B","i","h","a","r","'",","," ","5","0","0",")","]">>
\* "[('Error: x',)]" (15)
ROWS_WITH_MARKER == <<"[","(","'","E","r","r","o","r",":"," ","x","'",",",")","]">>
\* 'no such table: t' (16)
STORE_DETAIL == <<"n","o"," ","s","u","c","h"," ","t","a","b","l","e",":"," ","t">>
\* 'Connection refused' (18)
GATEWAY_DETAIL == <<"C","o","n","n","e","c","t","i","o","n"," ","r","e","f","u","s","e","d">>
\* 'Bihar: 500.' (11)
ANSWER_TEXT == <<"B","i","h","a","r",":"," ","5","0","0",".">>
\* ' Bihar: 500.\n' (13)
ANSWER_PADDED == <<" ","B","i","h","a","r",":"," ","5","0","0",".","\n">>

\* a statement as a model wraps it in a markdown code fence
Fenced(s) == FENCE_SQL \o <<"\n">> \o s \o <<"\n">> \o FENCE

Statements == {SQL_SELECT_1, SQL_SELECT_10, SQL_LOWER, SQL_PADDED}

\* llm.invoke(prompt).content in generate_sql_node
ModelOutputs ==
    Statements \cup {Fenced(s) : s \in Statements}
        \cup {<<>>, OUT_NOT_SQL, SQL_SELECT_12, OUT_LABELLED, OUT_REJOIN_COMMENT,
              OUT_REJOIN_FENCE, OUT_PROSE}

\* llm.invoke(prompt).content in synthesize_answer_node
AnswerOutputs == {ANSWER_TEXT, ANSWER_PADDED}

\* the exceptions llm.invoke raises, as str(e)
GatewayErrors == {GATEWAY_DETAIL}

\* what db.run returns: the rows as text, "" for no rows
StoreResults == {<<>>, ROWS_BIHAR, ROWS_WITH_MARKER}

\* the exceptions db.run raises, as str(e)
StoreErrors == {STORE_DETAIL}

Questions == {"Top 5 rice producing districts in Bihar in 2010?", "asdf;;;"}

DATABASE_SCHEMA == "CREATE TABLE crop_production (...)"

-----------------------------------------------------------------------------
(* The run so far *)

Nodes == {"generate_sql", "execute_sql", "synthesize_answer"}

Entry(n, o) == [node |-> n, retries |-> retries, outcome |-> o]

Calls(n) == Cardinality({i \in DOMAIN trace : trace[i].node = n})

\* the node whose update the stream yielded last
JustRanNode(n) == trace # <<>> /\ trace[Len(trace)].node = n

\* the supersteps of the graph run so far: one per node run
Steps == Cardinality({i \in DOMAIN trace : trace[i].node \in Nodes})

-----------------------------------------------------------------------------
(* generate_sql_node *)

\* as SanitizeSql, without the removal of the fence that names the language
SanitizeSqlPlainFenceOnly(content) ==
    Strip(Remove(Remove(Remove(Strip(Strip(content)), FENCE), COMMENT_CLOSE), SQL_LABEL))

\* the sanitizing of the model's text
SanitizeSql(content) ==
    Strip(Remove(Remove(Remove(Remove(Strip(Strip(content)), FENCE_SQL), FENCE),
                        COMMENT_CLOSE), SQL_LABEL))

\* as IsValidSql, with the length test off by one
IsValidSqlLongerThanMin(sql) ==
    ~(sql = <<>> \/ Len(sql) <= MIN_SQL_LEN \/ ~HasSqlVerb(sql))

\* the negation of the test "Invalid SQL detected"
IsValidSql(sql) ==
    ~(sql = <<>> \/ Len(sql) < MIN_SQL_LEN \/ ~HasSqlVerb(sql))

\* the correction appended to the prompt, "" when none is
PromptError(last_error) ==
    IF last_error # <<>> /\ Contains(last_error, ERROR_MARKER) THEN last_error ELSE <<>>

GenerateSql ==
    /\ pc = "generate_sql"
    /\ Steps < RECURSION_LIMIT
    /\ sql_prompt' = [schema |-> schema, question |-> question,
                      last_error |-> PromptError(data)]
    /\ \/ \E content \in ModelOutputs :
             LET sql == SanitizeSql(content) IN
             /\ llm_output' = content
             /\ IF IsValidSql(sql)
                THEN /\ sql_query' = sql
                     /\ data' = data
                     /\ trace' = Append(trace, Entry("generate_sql", "valid"))
                ELSE /\ sql_query' = <<>>
                     /\ data' = ERR_INVALID_SQL_GENERATED
                     /\ trace' = Append(trace, Entry("generate_sql", "invalid"))
       \/ \E e \in GatewayErrors :
             /\ sql_query' = <<>>
             /\ data' = ERR_DURING_GENERATION \o e
             /\ trace' = Append(trace, Entry("generate_sql", "raised"))
             /\ UNCHANGED llm_output
    /\ llm_calls' = llm_calls + 1
    /\ retries' = retries
    /\ pc' = "execute_sql"
    /\ UNCHANGED <<question, schema, answer, mutation_visible, db_query, answer_prompt,
                   db_calls, error_str, messages, runs>>

-----------------------------------------------------------------------------
(* execute_sql_node *)

\* the second stripping, before db.run
RestripSql(query) == Strip(Remove(Remove(Strip(query), COMMENT_CLOSE), FENCE))

ExecuteSql ==
    /\ pc = "execute_sql"
    /\ Steps < RECURSION_LIMIT
    /\ IF sql_query = <<>>
       THEN /\ data' = ERR_NO_VALID_SQL
            /\ trace' = Append(trace, Entry("execute_sql", "no_sql"))
            /\ UNCHANGED <<db_query, db_calls>>
       ELSE LET query == RestripSql(sql_query) IN
            IF ~HasSqlVerb(query)
            THEN /\ data' = ERR_INVALID_SQL_STOP
                 /\ trace' = Append(trace, Entry("execute_sql", "invalid"))
                 /\ UNCHANGED <<db_query, db_calls>>
            ELSE /\ db_query' = query
                 /\ db_calls' = db_calls + 1
                 /\ \/ \E result \in StoreResults :
                          /\ data' = result
                          /\ trace' = Append(trace, Entry("execute_sql", "returned"))
                    \/ \E e \in StoreErrors :
                          /\ data' = ERR_EXECUTION \o e
                          /\ trace' = Append(trace, Entry("execute_sql", "raised"))
    /\ retries' = retries
    /\ pc' = "should_continue_or_retry"
    /\ UNCHANGED <<question, schema, sql_query, answer, mutation_visible, llm_output,
                   sql_prompt, answer_prompt, llm_calls, error_str, messages, runs>>

-----------------------------------------------------------------------------
(* should_continue_or_retry, the conditional edge out of execute_sql *)

\* as Route, with the budget test off by one
RouteBudgetOffByOne(d, r) ==
    IF r > RETRY_BUDGET THEN "synthesize"
    ELSE IF Contains(d, ERROR_MARKER) THEN "retry"
    ELSE "synthesize"

\* the value the edge function returns
Route(d, r) ==
    IF r >= RETRY_BUDGET THEN "synthesize"
    ELSE IF Contains(d, ERROR_MARKER) THEN "retry"
    ELSE "synthesize"

\* state["retries"] = retries + 1 assigns into the dict the edge function was
\* handed; the state the next node reads has it only if the engine keeps it
RetriesAfter(route, r) ==
    IF route = "retry" /\ mutation_visible THEN r + 1 ELSE r

\* as EdgeTarget, with the retry route mapped to execute_sql
EdgeTargetRetryToExecute(route) ==
    IF route = "retry" THEN "execute_sql" ELSE "synthesize_answer"

\* the node add_conditional_edges maps a route to
EdgeTarget(route) ==
    IF route = "retry" THEN "generate_sql" ELSE "synthesize_answer"

ShouldContinueOrRetry ==
    /\ pc = "should_continue_or_retry"
    /\ LET route == Route(data, retries) IN
       /\ retries' = RetriesAfter(route, retries)
       /\ pc' = EdgeTarget(route)
       /\ trace' = Append(trace, Entry("should_continue_or_retry", route))
    /\ UNCHANGED <<question, schema, sql_query, data, answer, mutation_visible,
                   llm_output, db_query, sql_prompt, answer_prompt,
                   llm_calls, db_calls, error_str, messages, runs>>

-----------------------------------------------------------------------------
(* synthesize_answer_node *)

SynthesizeAnswer ==
    /\ pc = "synthesize_answer"
    /\ Steps < RECURSION_LIMIT
    /\ answer_prompt' = [question |-> question, data |-> data]
    /\ \/ \E content \in AnswerOutputs :
             /\ answer' = Strip(content)
             /\ trace' = Append(trace, Entry("synthesize_answer", "returned"))
       \/ \E e \in GatewayErrors :
             /\ answer' = ERR_SYNTHESIZING \o e
             /\ trace' = Append(trace, Entry("synthesize_answer", "raised"))
    /\ llm_calls' = llm_calls + 1
    /\ retries' = retries
    /\ pc' = "END"
    /\ UNCHANGED <<question, schema, sql_query, data, mutation_visible, llm_output,
                   db_query, sql_prompt, db_calls, error_str, messages, runs>>

-----------------------------------------------------------------------------
(* agent_app.stream(inputs, {"recursion_limit": 10}) and the input handler *)

\* the text of the exception the engine raises at the limit: LangGraph's, which
\* does not name the exception's class
\* 'Recursion limit of 10 reached without hitting a stop condition.'
RECURSION_TEXT == <<"R","e","c","u","r","s","i","o","n"," ","l","i","m","i","t"," ","o","f"," ","1","0"," ","r","e","a","c","h","e","d"," ","w","i","t","h","o","u","t"," ","h","i","t","t","i","n","g"," ","a"," ","s","t","o","p"," ","c","o","n","d","i","t","i","o","n",".">>

\* the same text from an engine that puts the class name in front of it
\* 'GraphRecursionError: Recursion limit of 10 reached without hitting a stop condition.'
RECURSION_TEXT_NAMED == <<"G","r","a","p","h","R","e","c","u","r","s","i","o","n","E","r","r","o","r",":"," ","R","e","c","u","r","s","i","o","n"," ","l","i","m","i","t"," ","o","f"," ","1","0"," ","r","e","a","c","h","e","d"," ","w","i","t","h","o","u","t"," ","h","i","t","t","i","n","g"," ","a"," ","s","t","o","p"," ","c","o","n","d","i","t","i","o","n",".">>

\* str(e) of the exception of a run stopped at the limit
RecursionErrorTexts == {RECURSION_TEXT, RECURSION_TEXT_NAMED}

\* 'GraphRecursionError'
GRAPH_RECURSION_ERROR == <<"G","r","a","p","h","R","e","c","u","r","s","i","o","n","E","r","r","o","r">>
\* 'Connection refused'
CONNECTION_REFUSED == <<"C","o","n","n","e","c","t","i","o","n"," ","r","e","f","u","s","e","d">>

\* the emoji that open the handler's messages, each one token
WARNING_SIGN == "warning sign"

NO_ENTRY_SIGN == "no entry sign"

CROSS_MARK == "cross mark"

\* "(WARNING_SIGN) I'm sorry, I couldn't generate an answer. Please try again."
MSG_NO_ANSWER == <<WARNING_SIGN," ","I","'","m"," ","s","o","r","r","y",","," ","I"," ","c","o","u","l","d","n","'","t"," ","g","e","n","e","r","a","t","e"," ","a","n"," ","a","n","s","w","e","r","."," ","P","l","e","a","s","e"," ","t","r","y"," ","a","g","a","i","n",".">>
\* '(WARNING_SIGN) The agent exceeded its reasoning depth after multiple retries. Try rephrasing your question.'
MSG_DEPTH == <<WARNING_SIGN," ","T","h","e"," ","a","g","e","n","t"," ","e","x","c","e","e","d","e","d"," ","i","t","s"," ","r","e","a","s","o","n","i","n","g"," ","d","e","p","t","h"," ","a","f","t","e","r"," ","m","u","l","t","i","p","l","e"," ","r","e","t","r","i","e","s","."," ","T","r","y"," ","r","e","p","h","r","a","s","i","n","g"," ","y","o","u","r"," ","q","u","e","s","t","i","o","n",".">>
\* '(NO_ENTRY_SIGN) Cannot reach the local Ollama model. Please ensure Ollama is running.'
MSG_OLLAMA == <<NO_ENTRY_SIGN," ","C","a","n","n","o","t"," ","r","e","a","c","h"," ","t","h","e"," ","l","o","c","a","l"," ","O","l","l","a","m","a"," ","m","o","d","e","l","."," ","P","l","e","a","s","e"," ","e","n","s","u","r","e"," ","O","l","l","a","m","a"," ","i","s"," ","r","u","n","n","i","n","g",".">>
\* '(CROSS_MARK) Unexpected error: '
MSG_UNEXPECTED == <<CROSS_MARK," ","U","n","e","x","p","e","c","t","e","d"," ","e","r","r","o","r",":"," ">>

\* the engine stops a run that needs a superstep beyond the limit
GraphRecursionError ==
    /\ pc \in Nodes
    /\ Steps >= RECURSION_LIMIT
    /\ pc' = "GraphRecursionError"
    /\ error_str' \in RecursionErrorTexts
    /\ UNCHANGED <<question, schema, sql_query, data, answer, retries, mutation_visible,
                   llm_output, db_query, sql_prompt, answer_prompt, trace,
                   llm_calls, db_calls, messages, runs>>

\* the answer the handler makes of the exception text
ErrorAnswer(text) ==
    IF Contains(text, GRAPH_RECURSION_ERROR) THEN MSG_DEPTH
    ELSE IF Contains(text, CONNECTION_REFUSED) THEN MSG_OLLAMA
    ELSE MSG_UNEXPECTED \o text

\* the answer the handler takes from the last chunk of the stream
FinalAnswer ==
    IF JustRanNode("synthesize_answer") THEN answer ELSE MSG_NO_ANSWER

\* the end of the input handler: the answer is shown and appended to the history
Respond ==
    /\ pc \in {"END", "GraphRecursionError"}
    /\ Len(messages) = 1
    /\ messages' = Append(messages,
                          [role |-> "assistant",
                           content |-> IF pc = "END" THEN FinalAnswer
                                       ELSE ErrorAnswer(error_str)])
    /\ UNCHANGED <<question, schema, sql_query, data, answer, retries, pc, mutation_visible,
                   llm_output, db_query, sql_prompt, answer_prompt, trace,
                   llm_calls, db_calls, error_str, runs>>

\* as Inputs, with a placeholder answer instead of the empty one
InputsWithPlaceholderAnswer(q) ==
    [question |-> q, schema |-> DATABASE_SCHEMA, sql_query |-> <<>>, data |-> <<>>,
     answer |-> <<".", ".", ".">>, retries |-> 0]

\* the state graph's input, as the input handler builds it
Inputs(q) ==
    [question |-> q, schema |-> DATABASE_SCHEMA, sql_query |-> <<>>, data |-> <<>>,
     answer |-> <<>>, retries |-> 0]

Init ==
    /\ \E q \in Questions :
          /\ question = Inputs(q).question
          /\ schema = Inputs(q).schema
          /\ sql_query = Inputs(q).sql_query
          /\ data = Inputs(q).data
          /\ answer = Inputs(q).answer
          /\ retries = Inputs(q).retries
          /\ messages = <<[role |-> "user", content |-> q]>>
    /\ pc = "generate_sql"
    /\ mutation_visible \in BOOLEAN
    /\ llm_output = <<>>
    /\ db_query = <<>>
    /\ sql_prompt = [schema |-> "", question |-> "", last_error |-> <<>>]
    /\ answer_prompt = [question |-> "", data |-> <<>>]
    /\ trace = <<>>
    /\ llm_calls = 0
    /\ db_calls = 0
    /\ error_str = <<>>
    /\ runs = <<>>

Next ==
    \/ GenerateSql
    \/ ExecuteSql
    \/ ShouldContinueOrRetry
    \/ SynthesizeAnswer
    \/ GraphRecursionError
    \/ Respond

Spec == Init /\ [][Next]_vars

-----------------------------------------------------------------------------
(* Several sessions at once: each input handler builds its own inputs and     *)
(* streams its own run of the one compiled graph.  A run is its AgentState,   *)
(* the node it is at, and what it has done so far.                            *)

NumSessions == 2

Sessions == 1..NumSessions

\* what the collaborators answer here: fewer texts than above, the same cases
ConcurrentModelOutputs == {SQL_SELECT_10, OUT_NOT_SQL}

ConcurrentStoreResults == {ROWS_BIHAR}

ConcurrentAnswerOutputs == {ANSWER_TEXT}

\* the question of a session
QuestionOf(i) ==
    IF i = 1 THEN "Top 5 rice producing districts in Bihar in 2010?" ELSE "asdf;;;"

\* a run as agent_app.stream(inputs, ...) starts it
NewRun(i) ==
    [state |-> Inputs(QuestionOf(i)), pc |-> "generate_sql", steps |-> 0,
     retry_decisions |-> 0]

\* as Write, with retries kept in one counter for all the runs
WriteWithSharedRetries(i, run) ==
    [j \in Sessions |->
        IF j = i THEN run ELSE [runs[j] EXCEPT !.state.retries = run.state.retries]]

\* a node's update is applied to the state of the run that ran the node
Write(i, run) == [runs EXCEPT ![i] = run]

\* generate_sql_node in the run of session i
RunGenerateSql(i) ==
    /\ runs[i].pc = "generate_sql"
    /\ runs[i].steps < RECURSION_LIMIT
    /\ \/ \E content \in ConcurrentModelOutputs :
             LET sql == SanitizeSql(content)
                 state == IF IsValidSql(sql)
                          THEN [runs[i].state EXCEPT !.sql_query = sql]
                          ELSE [runs[i].state EXCEPT !.sql_query = <<>>,
                                                     !.data = ERR_INVALID_SQL_GENERATED]
             IN runs' = Write(i, [runs[i] EXCEPT !.state = state, !.pc = "execute_sql",
                                                 !.steps = @ + 1])
       \/ \E e \in GatewayErrors :
             runs' = Write(i, [runs[i] EXCEPT !.state.sql_query = <<>>,
                                              !.state.data = ERR_DURING_GENERATION \o e,
                                              !.pc = "execute_sql", !.steps = @ + 1])
    /\ UNCHANGED <<single, mutation_visible>>

\* execute_sql_node in the run of session i
RunExecuteSql(i) ==
    /\ runs[i].pc = "execute_sql"
    /\ runs[i].steps < RECURSION_LIMIT
    /\ \E d \in IF runs[i].state.sql_query = <<>> THEN {ERR_NO_VALID_SQL}
                 ELSE IF ~HasSqlVerb(RestripSql(runs[i].state.sql_query))
                 THEN {ERR_INVALID_SQL_STOP}
                 ELSE ConcurrentStoreResults \cup {ERR_EXECUTION \o e : e \in StoreErrors} :
          runs' = Write(i, [runs[i] EXCEPT !.state.data = d,
                                           !.pc = "should_continue_or_retry",
                                           !.steps = @ + 1])
    /\ UNCHANGED <<single, mutation_visible>>

\* should_continue_or_retry in the run of session i
RunShouldContinueOrRetry(i) ==
    /\ runs[i].pc = "should_continue_or_retry"
    /\ LET route == Route(runs[i].state.data, runs[i].state.retries) IN
       runs' = Write(i, [runs[i] EXCEPT
                            !.state.retries = RetriesAfter(route, @),
                            !.pc = EdgeTarget(route),
                            !.retry_decisions = IF route = "retry" THEN @ + 1 ELSE @])
    /\ UNCHANGED <<single, mutation_visible>>

\* synthesize_answer_node in the run of session i
RunSynthesizeAnswer(i) ==
    /\ runs[i].pc = "synthesize_answer"
    /\ runs[i].steps < RECURSION_LIMIT
    /\ \E a \in {Strip(content) : content \in ConcurrentAnswerOutputs}
                 \cup {ERR_SYNTHESIZING \o e : e \in GatewayErrors} :
          runs' = Write(i, [runs[i] EXCEPT !.state.answer = a, !.pc = "END",
                                           !.steps = @ + 1])
    /\ UNCHANGED <<single, mutation_visible>>

\* the run of session i is stopped at the recursion limit
RunGraphRecursionError(i) ==
    /\ runs[i].pc \in Nodes
    /\ runs[i].steps >= RECURSION_LIMIT
    /\ runs' = Write(i, [runs[i] EXCEPT !.pc = "GraphRecursionError"])
    /\ UNCHANGED <<single, mutation_visible>>

InitConcurrent ==
    /\ runs = [i \in Sessions |-> NewRun(i)]
    /\ mutation_visible \in BOOLEAN
    /\ question = ""
    /\ schema = DATABASE_SCHEMA
    /\ sql_query = <<>>
    /\ data = <<>>
    /\ answer = <<>>
    /\ retries = 0
    /\ pc = "concurrent"
    /\ llm_output = <<>>
    /\ db_query = <<>>
    /\ sql_prompt = [schema |-> "", question |-> "", last_error |-> <<>>]
    /\ answer_prompt = [question |-> "", data |-> <<>>]
    /\ trace = <<>>
    /\ llm_calls = 0
    /\ db_calls = 0
    /\ error_str = <<>>
    /\ messages = <<>>

NextConcurrent ==
    \E i \in Sessions :
        \/ RunGenerateSql(i)
        \/ RunExecuteSql(i)
        \/ RunShouldContinueOrRetry(i)
        \/ RunSynthesizeAnswer(i)
        \/ RunGraphRecursionError(i)

SpecConcurrent == InitConcurrent /\ [][NextConcurrent]_vars

-----------------------------------------------------------------------------
(* Vocabulary of the properties *)

Terminated == pc \in {"END", "GraphRecursionError"}

\* the node or decision that ran last
JustRan(n) == trace # <<>> /\ trace[Len(trace)].node = n

LastOutcome == trace[Len(trace)].outcome

\* the outcomes of the runs of node n, oldest first
RECURSIVE OutcomesIn(_, _)
OutcomesIn(tr, n) ==
    IF tr = <<>> THEN <<>>
    ELSE IF Head(tr).node = n THEN <<Head(tr).outcome>> \o OutcomesIn(Tail(tr), n)
    ELSE OutcomesIn(Tail(tr), n)

Outcomes(n) == OutcomesIn(trace, n)

Every(n, outcomes) == \A i \in DOMAIN trace : trace[i].node = n => trace[i].outcome \in outcomes

\* the prefix test as the specification words it: one of the five verbs, in any case
VerbsUpper ==
    { <<"S","E","L","E","C","T">>, <<"I","N","S","E","R","T">>, <<"U","P","D","A","T","E">>,
      <<"D","E","L","E","T","E">>, <<"C","R","E","A","T","E">> }

BeginsWithVerb(s) ==
    \E v \in VerbsUpper :
        /\ Len(s) >= Len(v)
        /\ \A i \in 1..Len(v) : s[i] = v[i] \/ s[i] = LowerChar(v[i])

-----------------------------------------------------------------------------
(* C1 *)

\* C1: every run ends at END, and only after synthesize_answer has run and set
\* answer: no run is cut off without a synthesized answer.
C1_EndsWithSynthesizedAnswer ==
    /\ pc # "GraphRecursionError"
    /\ pc = "END" => JustRan("synthesize_answer") /\ answer # <<>>

-----------------------------------------------------------------------------
(* C2 *)

\* C2: retries starts at 0, stays within 0..RETRY_BUDGET in every state of a
\* run (so also at END), and no step writes a smaller value than the current one.
C2_RetriesBoundedMonotone ==
    /\ retries = 0
    /\ [](retries \in 0..RETRY_BUDGET)
    /\ [][retries' >= retries]_vars

\* a run that retried at least once and reached END
C2_Witness ==
    /\ pc = "END"
    /\ \E i \in DOMAIN trace :
          trace[i].node = "should_continue_or_retry" /\ trace[i].outcome = "retry"

-----------------------------------------------------------------------------
(* C3 *)

\* C3: a run all of whose generations fail validation never makes more than
\* RETRY_BUDGET generations, and ends at END with an answer after exactly
\* RETRY_BUDGET of them.
C3_ThreeGenerationsWhenAllInvalid ==
    Every("generate_sql", {"invalid"}) =>
        /\ Calls("generate_sql") <= RETRY_BUDGET
        /\ Terminated =>
              /\ pc = "END"
              /\ answer # <<>>
              /\ Calls("generate_sql") = RETRY_BUDGET

-----------------------------------------------------------------------------
(* C4 *)

\* C4: a run whose first generation is valid and whose first db.run returns a
\* result has, at END, run each node exactly once and has retries = 0; such a
\* run never generates or executes a second time.
C4_OnePassOnFirstSuccess ==
    (/\ Len(Outcomes("generate_sql")) >= 1
     /\ Outcomes("generate_sql")[1] = "valid"
     /\ Len(Outcomes("execute_sql")) >= 1
     /\ Outcomes("execute_sql")[1] = "returned") =>
        /\ Calls("generate_sql") = 1
        /\ Calls("execute_sql") = 1
        /\ pc = "END" => Calls("synthesize_answer") = 1 /\ retries = 0

-----------------------------------------------------------------------------
(* C5 *)

\* db.run raised on its first k calls and returned on call k + 1, the last one
FailedThenReturned(k) ==
    /\ Every("execute_sql", {"returned", "raised"})
    /\ Len(Outcomes("execute_sql")) = k + 1
    /\ \A i \in 1..k : Outcomes("execute_sql")[i] = "raised"
    /\ Outcomes("execute_sql")[k + 1] = "returned"

\* C5: for k in 1..3, a run all of whose generations are valid and whose store
\* calls fail k times and then succeed is, at END, one of k + 1 generations,
\* k + 1 executions, one synthesis on the returned result, and retries = k.
C5_RetriesCountFailures ==
    \A k \in 1..RETRY_BUDGET :
        (pc = "END" /\ Every("generate_sql", {"valid"}) /\ FailedThenReturned(k)) =>
            /\ Calls("generate_sql") = k + 1
            /\ Calls("execute_sql") = k + 1
            /\ Calls("synthesize_answer") = 1
            /\ retries = k
            /\ answer_prompt.data \in StoreResults
            /\ data = answer_prompt.data

-----------------------------------------------------------------------------
(* C6 *)

\* what generate_sql_node's validation asks of a string
PassesValidation(s) == s # <<>> /\ Len(s) >= MIN_SQL_LEN /\ BeginsWithVerb(s)

\* execute_sql_node has just called db.run
JustSubmitted == JustRan("execute_sql") /\ LastOutcome \in {"returned", "raised"}

\* C6: a string submitted to db.run begins with one of the five verbs in any
\* case and has at least MIN_SQL_LEN characters; an execution whose sql_query is
\* empty or fails that validation ends with an error in data and no db.run.
C6_SubmittedSqlPassesValidation ==
    /\ JustSubmitted => BeginsWithVerb(db_query) /\ Len(db_query) >= MIN_SQL_LEN
    /\ (JustRan("execute_sql") /\ ~PassesValidation(sql_query)) =>
          /\ LastOutcome \in {"no_sql", "invalid"}
          /\ StartsWith(data, ERROR_MARKER)

\* C6 as amended: a string submitted to db.run begins with one of the five
\* verbs in any case, so it has at least the 6 characters of a verb, and it is
\* the second stripping of an sql_query that passed generation's validation;
\* an execution whose sql_query is empty, or whose stripped text does not begin
\* with a verb, ends with an error in data and no db.run.
C6_SubmittedSqlBeginsWithVerb ==
    /\ JustSubmitted =>
          /\ BeginsWithVerb(db_query)
          /\ Len(db_query) >= 6
          /\ PassesValidation(sql_query)
    /\ (JustRan("execute_sql") /\ (sql_query = <<>> \/ ~BeginsWithVerb(sql_query))) =>
          /\ LastOutcome \in {"no_sql", "invalid"}
          /\ StartsWith(data, ERROR_MARKER)

\* db.run was given a string shorter than MIN_SQL_LEN: stripping the re-joined
\* comment close shortened an sql_query that generation had accepted
C6_Witness ==
    /\ JustSubmitted
    /\ Len(sql_query) >= MIN_SQL_LEN
    /\ Len(db_query) < MIN_SQL_LEN
    /\ BeginsWithVerb(db_query)

-----------------------------------------------------------------------------
(* C7 *)

\* generate_sql_node has just stored what it made of a model output
JustGenerated == JustRan("generate_sql") /\ LastOutcome \in {"valid", "invalid"}

\* the sql_query generate_sql_node sets for the model output s
SqlQueryFor(s) == IF IsValidSql(SanitizeSql(s)) THEN SanitizeSql(s) ELSE <<>>

\* C7: a generation given the fenced form of a statement s sets the sql_query
\* that a generation given s sets, and for s = "SELECT 1;" that is "SELECT 1;",
\* fenced or not.
C7_FencedSameAsPlain ==
    JustGenerated =>
        /\ \A s \in Statements : llm_output = Fenced(s) => sql_query = SqlQueryFor(s)
        /\ llm_output \in {SQL_SELECT_1, Fenced(SQL_SELECT_1)} => sql_query = SQL_SELECT_1

\* C7 as amended: a generation given the fenced form of a statement s sets the
\* sql_query that a generation given s sets; for s = "SELECT 1;", 9 characters,
\* that is the empty string with data "Error: Invalid SQL generated.", fenced or
\* not, and for s = "SELECT 10;" it is "SELECT 10;", fenced or not.
C7_FencedSameAsPlainAmended ==
    JustGenerated =>
        /\ \A s \in Statements : llm_output = Fenced(s) => sql_query = SqlQueryFor(s)
        /\ llm_output \in {SQL_SELECT_1, Fenced(SQL_SELECT_1)} =>
              sql_query = <<>> /\ data = ERR_INVALID_SQL_GENERATED
        /\ llm_output \in {SQL_SELECT_10, Fenced(SQL_SELECT_10)} => sql_query = SQL_SELECT_10

\* a fenced statement was generated and accepted with the fence gone
C7_Witness ==
    /\ JustGenerated
    /\ llm_output = Fenced(SQL_SELECT_10)
    /\ sql_query = SQL_SELECT_10

-----------------------------------------------------------------------------
(* C8 *)

\* C8: generation stores the sanitized model output as sql_query exactly when
\* it is non-empty, has at least MIN_SQL_LEN characters and begins with one of
\* the five verbs in any case; otherwise sql_query is empty and data is
\* "Error: Invalid SQL generated.". The 9 characters "SELECT 12" are rejected,
\* the 10 characters "select 1 ;" are accepted.
C8_ValidationBoundary ==
    JustGenerated =>
        /\ IF PassesValidation(SanitizeSql(llm_output))
           THEN sql_query = SanitizeSql(llm_output) /\ LastOutcome = "valid"
           ELSE /\ sql_query = <<>>
                /\ data = ERR_INVALID_SQL_GENERATED
                /\ LastOutcome = "invalid"
        /\ llm_output = SQL_SELECT_12 => sql_query = <<>>
        /\ llm_output = SQL_LOWER => sql_query = SQL_LOWER

\* the 9-character output was rejected after the 10-character lowercase one
\* had been accepted in the cycle before
C8_Witness ==
    /\ JustGenerated
    /\ llm_output = SQL_SELECT_12
    /\ sql_query = <<>>
    /\ data = ERR_INVALID_SQL_GENERATED
    /\ db_query = SQL_LOWER

-----------------------------------------------------------------------------
(* C9 *)

\* every call of the model and of the store so far raised
EveryCallRaised ==
    /\ Every("generate_sql", {"raised"})
    /\ Every("execute_sql", {"raised", "no_sql"})
    /\ Every("synthesize_answer", {"raised"})

\* C9: a failure of db.run is stored in data as "Error: <detail>", a failure of
\* the model in generation as "Error during SQL generation: <detail>" with
\* sql_query empty, a failure of the model in synthesis as "Error synthesizing
\* answer: <detail>" in answer; and a run in which every call fails ends at END
\* with an answer.
C9_FailuresAreStoredAndTheRunEnds ==
    /\ (JustRan("execute_sql") /\ LastOutcome = "raised") =>
          \E e \in StoreErrors : data = ERR_EXECUTION \o e
    /\ (JustRan("generate_sql") /\ LastOutcome = "raised") =>
          /\ \E e \in GatewayErrors : data = ERR_DURING_GENERATION \o e
          /\ sql_query = <<>>
    /\ (JustRan("synthesize_answer") /\ LastOutcome = "raised") =>
          \E e \in GatewayErrors : answer = ERR_SYNTHESIZING \o e
    /\ (EveryCallRaised /\ Terminated) => pc = "END" /\ answer # <<>>

-----------------------------------------------------------------------------
(* C10 *)

\* C10: after a decision to retry taken with retries = n, the nodes and the
\* decision that follow, up to and including the next decision, read n + 1.
C10_IncrementIsSeen ==
    \A i \in DOMAIN trace :
        (trace[i].node = "should_continue_or_retry" /\ trace[i].outcome = "retry") =>
            \A j \in (i + 1)..Len(trace) :
                j <= i + 3 => trace[j].retries = trace[i].retries + 1

-----------------------------------------------------------------------------
(* C11 *)

IsDecision(e) == e.node = "should_continue_or_retry"

\* C11: every execution is followed by the decision; a decision taken with
\* retries >= RETRY_BUDGET goes to synthesize_answer whatever data holds and
\* leaves retries as it is; a decision goes to generate_sql only with
\* retries < RETRY_BUDGET.
C11_DecisionAfterEveryExecution ==
    /\ [](\A i \in DOMAIN trace :
             (trace[i].node = "execute_sql" /\ i < Len(trace)) => IsDecision(trace[i + 1]))
    /\ [](JustRan("execute_sql") => pc = "should_continue_or_retry")
    /\ [][(pc = "should_continue_or_retry" /\ retries >= RETRY_BUDGET) =>
             (pc' = "synthesize_answer" /\ retries' = retries)]_vars
    /\ [][(pc = "should_continue_or_retry" /\ pc' = "generate_sql") =>
             retries < RETRY_BUDGET]_vars

\* a decision taken at the budget with an error in data went to synthesis
C11_Witness ==
    /\ JustRan("should_continue_or_retry")
    /\ trace[Len(trace)].retries = RETRY_BUDGET
    /\ Contains(data, ERROR_MARKER)
    /\ pc = "synthesize_answer"
    /\ retries = RETRY_BUDGET

-----------------------------------------------------------------------------
(* C12 *)

\* C12: a decision taken with retries < RETRY_BUDGET retries, adding one to
\* retries, exactly when data begins with "Error:"; when data does not begin
\* with it, the decision goes to synthesis and retries stays.
C12_RetryIffLeadingMarker ==
    (JustRan("should_continue_or_retry") /\ trace[Len(trace)].retries < RETRY_BUDGET) =>
        IF StartsWith(data, ERROR_MARKER)
        THEN /\ LastOutcome = "retry"
             /\ pc = "generate_sql"
             /\ retries = trace[Len(trace)].retries + 1
        ELSE /\ LastOutcome = "synthesize"
             /\ pc = "synthesize_answer"
             /\ retries = trace[Len(trace)].retries

-----------------------------------------------------------------------------
(* C13 *)

\* C13: the run starts with a generation; an execution comes right after a
\* generation, and after a failed one it submits nothing; a generation after
\* the first comes right after a decision to retry; synthesis comes right
\* after a decision to synthesize, at most once, and nothing runs after it.
C13_StageOrder ==
    /\ trace # <<>> => trace[1].node = "generate_sql"
    /\ Calls("synthesize_answer") <= 1
    /\ db_calls = Cardinality({i \in DOMAIN trace :
                                  /\ trace[i].node = "execute_sql"
                                  /\ trace[i].outcome \in {"returned", "raised"}})
    /\ \A i \in DOMAIN trace :
          /\ trace[i].node = "execute_sql" =>
                /\ i > 1
                /\ trace[i - 1].node = "generate_sql"
                /\ trace[i - 1].outcome \in {"invalid", "raised"} =>
                      trace[i].outcome = "no_sql"
          /\ (trace[i].node = "generate_sql" /\ i > 1) =>
                IsDecision(trace[i - 1]) /\ trace[i - 1].outcome = "retry"
          /\ trace[i].node = "synthesize_answer" =>
                /\ i = Len(trace)
                /\ i > 1
                /\ IsDecision(trace[i - 1])
                /\ trace[i - 1].outcome = "synthesize"

\* a run ended in which a cycle submitted SQL and the next cycle's generation
\* failed, so that its execution submitted nothing
C13_Witness ==
    /\ pc = "END"
    /\ \E i \in DOMAIN trace :
          /\ i > 4
          /\ trace[i].node = "execute_sql"
          /\ trace[i].outcome = "no_sql"
          /\ trace[i - 3].node = "execute_sql"
          /\ trace[i - 3].outcome = "raised"

-----------------------------------------------------------------------------
(* C14 *)

\* C14: each generation and each synthesis calls llm.invoke once, each
\* execution calls db.run at most once, and a run that is over, with g
\* generations, has called llm.invoke g + 1 times and db.run at most g times.
C14_OneCallPerStage ==
    /\ llm_calls = Calls("generate_sql") + Calls("synthesize_answer")
    /\ db_calls <= Calls("execute_sql")
    /\ Terminated =>
          /\ llm_calls = Calls("generate_sql") + 1
          /\ db_calls <= Calls("generate_sql")

-----------------------------------------------------------------------------
(* C15 *)

\* C15: question and schema are those of the input in every state, no step
\* changes them, answer is empty until synthesize_answer has run, and no step
\* taken elsewhere than at synthesize_answer changes answer.
C15_QuestionSchemaAnswerFrame ==
    /\ [](question = messages[1].content /\ schema = DATABASE_SCHEMA)
    /\ [][question' = question /\ schema' = schema]_vars
    /\ [](Calls("synthesize_answer") = 0 => answer = <<>>)
    /\ [][pc # "synthesize_answer" => answer' = answer]_vars

\* a run that retried has a synthesized answer and its question as entered
C15_Witness ==
    /\ pc = "END"
    /\ Calls("generate_sql") >= 2
    /\ answer # <<>>
    /\ question = messages[1].content

-----------------------------------------------------------------------------
(* C16 *)

Answered == Len(messages) = 2

\* C16: the history never holds more than one assistant answer, a run that is
\* over gets one, and the one for a run stopped at the recursion limit is the
\* "exceeded its reasoning depth" message.
C16_DepthMessageAtTheLimit ==
    /\ Len(messages) <= 2
    /\ Answered => Terminated /\ messages[2].role = "assistant" /\ messages[2].content # <<>>
    /\ (Answered /\ pc = "GraphRecursionError") => messages[2].content = MSG_DEPTH

-----------------------------------------------------------------------------
(* C18 *)

RetryDecisions ==
    Cardinality({i \in DOMAIN trace : IsDecision(trace[i]) /\ trace[i].outcome = "retry"})

\* C18: a run in which the decision's increment is kept takes at most
\* 2 * (RETRY_BUDGET + 1) + 1 = 9 supersteps, at most RETRY_BUDGET + 1 of them
\* generations and as many executions, and is never stopped at the recursion
\* limit; a run that is stopped there has decided to retry more than
\* RETRY_BUDGET times.
C18_CeilingOnlyBeyondBudget ==
    /\ mutation_visible =>
          /\ Steps <= 2 * (RETRY_BUDGET + 1) + 1
          /\ Steps < RECURSION_LIMIT
          /\ Calls("generate_sql") <= RETRY_BUDGET + 1
          /\ Calls("execute_sql") <= RETRY_BUDGET + 1
          /\ Calls("synthesize_answer") <= 1
          /\ pc # "GraphRecursionError"
    /\ pc = "GraphRecursionError" => RetryDecisions > RETRY_BUDGET

\* a run with the increment kept that used the whole budget: 4 generations,
\* 4 executions and the synthesis
C18_Witness ==
    /\ mutation_visible
    /\ pc = "END"
    /\ Steps = 2 * (RETRY_BUDGET + 1) + 1
    /\ retries = RETRY_BUDGET

-----------------------------------------------------------------------------
(* C19 *)

\* what a failed generation writes into data
GenerationFailureTexts ==
    {ERR_INVALID_SQL_GENERATED} \cup {ERR_DURING_GENERATION \o e : e \in GatewayErrors}

\* the last generation failed
LastGenerationFailed ==
    \E i \in DOMAIN trace :
        /\ trace[i].node = "generate_sql"
        /\ trace[i].outcome \in {"invalid", "raised"}
        /\ \A j \in (i + 1)..Len(trace) : trace[j].node # "generate_sql"

\* C19: when the decision is taken after a failed generation, data is
\* "Error: No valid SQL to execute.", which holds the marker; the decision, the
\* prompt of a generation and the prompt of the synthesis never see what the
\* failed generation wrote.
C19_ExecutionOverwritesGenerationFailure ==
    /\ (pc = "should_continue_or_retry" /\ LastGenerationFailed) =>
          /\ data = ERR_NO_VALID_SQL
          /\ Contains(data, ERROR_MARKER)
    /\ pc = "should_continue_or_retry" => data \notin GenerationFailureTexts
    /\ sql_prompt.last_error \notin GenerationFailureTexts
    /\ answer_prompt.data \notin GenerationFailureTexts
    /\ (JustRan("synthesize_answer") /\ LastGenerationFailed) =>
          answer_prompt.data = ERR_NO_VALID_SQL

\* a generation whose prompt carries the execution's message for the failed
\* generation of the cycle before
C19_Witness ==
    /\ JustRan("generate_sql")
    /\ Len(trace) >= 4
    /\ trace[Len(trace) - 3].node = "generate_sql"
    /\ trace[Len(trace) - 3].outcome = "raised"
    /\ sql_prompt.last_error = ERR_NO_VALID_SQL

-----------------------------------------------------------------------------
(* C17 *)

\* the supersteps a run at node n has taken after d decisions to retry
StepsAt(n, d) ==
    2 * d + (CASE n = "generate_sql" -> 0
               [] n = "execute_sql" -> 1
               [] n = "should_continue_or_retry" -> 2
               [] n = "synthesize_answer" -> 2
               [] n = "END" -> 3
               [] OTHER -> 0)

\* C17: with the runs of two sessions interleaved in any order, a step of one
\* run leaves the other run as it is, and each run's retries, number of
\* supersteps and ending are those its own decisions give it, as in a run
\* alone: retries is the number of its own retry decisions where the engine
\* keeps the increment and 0 where it does not, its supersteps are those of
\* its own cycles, it ends at END after at most RETRY_BUDGET retries of its
\* own and is stopped at the limit only after RECURSION_LIMIT supersteps of
\* its own.
C17_RunsAreIndependent ==
    /\ [][\A i \in Sessions : \A j \in Sessions \ {i} :
             runs'[i] # runs[i] => runs'[j] = runs[j]]_vars
    /\ [](\A i \in Sessions :
             /\ runs[i].state.retries =
                   IF mutation_visible THEN runs[i].retry_decisions ELSE 0
             /\ runs[i].state.question = QuestionOf(i)
             /\ runs[i].pc # "GraphRecursionError" =>
                   runs[i].steps = StepsAt(runs[i].pc, runs[i].retry_decisions)
             /\ runs[i].pc = "END" => runs[i].retry_decisions <= RETRY_BUDGET
             /\ runs[i].pc = "GraphRecursionError" => runs[i].steps = RECURSION_LIMIT)

\* session 2 has ended without a retry while session 1, after two retries of
\* its own, is in its third cycle
C17_Witness ==
    /\ runs[1].pc = "execute_sql"
    /\ runs[1].retry_decisions = 2
    /\ runs[2].pc = "END"
    /\ runs[2].retry_decisions = 0
    /\ runs[2].state.retries = 0

====
